---- MODULE Spec2Model ----
(***************************************************************************)
(* BackupTracker (vs/workbench/contrib/backup/common/backupTracker.ts).    *)
(*                                                                         *)
(* The tracker keeps a map resource -> disposable of a running timeout and *)
(* one flag.  Handlers run to completion on the event loop; a timeout      *)
(* callback and the continuation of an untitled model's resolve() promise  *)
(* are separate turns of the loop, so other events can run before them.    *)
(*                                                                         *)
(* Collaborator state that the handlers read (isDirty(), models.get()) is  *)
(* changed by the environment.  A resource is identified by its value: the *)
(* collaborators are taken to hand out one URI object per resource.        *)
(*                                                                         *)
(* calls and event record what the last turn did (the collaborator calls   *)
(* it made, the handler that ran), sinceChange the time since the last     *)
(* qualifying content change, untitledPhase whether an untitled model was  *)
(* disposed after the last event that asked for its backup; no handler     *)
(* reads them.                                                             *)
(***************************************************************************)
EXTENDS Integers, FiniteSets, Sequences

VARIABLES
    backupsDisabledForAutoSaveables, \* the field of line 32
    pendingBackups,                  \* the Map of line 34: resource -> timeout handle
    timers,                          \* the event loop's timeouts: handle -> timeout
    resolving,                       \* resolve() promises whose continuation has not run
    disposed,                        \* the tracker's dispose() has run
    dirty,                           \* collaborator: isDirty() of each resource
    models,                          \* collaborator: textFileService.models
    calls,                           \* collaborator calls made by the last turn
    event,                           \* the last turn
    sinceChange,                     \* time since the last qualifying content change
    untitledPhase                    \* untitled: disposed since its last qualifying event?

vars == <<backupsDisabledForAutoSaveables, pendingBackups, timers, resolving,
          disposed, dirty, models, calls, event, sinceChange, untitledPhase>>

----------------------------------------------------------------------------
(* Program constants *)

DISABLE_BACKUP_AUTO_SAVE_THRESHOLD == 1500

BACKUP_FROM_CONTENT_CHANGE_DELAY == 1000

(* Bounds of the model *)

\* number of timeout handles the event loop can have live at once
MaxTimers == 3

\* number of unresolved resolve() promises per untitled resource
MaxResolving == 2

\* the time one Tick lets pass
TickStep == 500

----------------------------------------------------------------------------
(* Resources, configurations, timeouts *)

FileResources == {"file:a"}

UntitledResources == {"untitled:1"}

Resources == FileResources \cup UntitledResources

NoResource == "none"

\* workingCopy.capabilities & WorkingCopyCapabilities.Untitled
HasUntitledCapability(r) == r \in UntitledResources

\* workingCopy.resource.scheme === Schemas.untitled
HasUntitledScheme(r) == r \in UntitledResources

\* IAutoSaveConfiguration.autoSaveDelay: a number, or undefined
Undefined == -1

AutoSaveDelays == {Undefined, 0, DISABLE_BACKUP_AUTO_SAVE_THRESHOLD - 1,
                   DISABLE_BACKUP_AUTO_SAVE_THRESHOLD,
                   DISABLE_BACKUP_AUTO_SAVE_THRESHOLD + 1}

TimerIds == 1 .. MaxTimers

None == 0

NoTimer == [res |-> NoResource, elapsed |-> 0]

Timer(r) == [res |-> r, elapsed |-> 0]

IsLive(tm, id) == tm[id] # NoTimer

LiveTimers(tm) == {id \in TimerIds : IsLive(tm, id)}

Min(a, b) == IF a < b THEN a ELSE b

Turn(kind, r, delay, prior) ==
    [kind |-> kind, res |-> r, delay |-> delay, prior |-> prior]

BackupCall(r) == [call |-> "backup", res |-> r]

DiscardCall(r) == [call |-> "discardResourceBackup", res |-> r]

----------------------------------------------------------------------------
(* The tracker's procedures, as functions of the state they change *)

\* a threshold that is itself suppressed (<= for <)
DisabledForDelayInclusive(delay) ==
    delay # Undefined /\ delay <= DISABLE_BACKUP_AUTO_SAVE_THRESHOLD

\* typeof autoSaveDelay === 'number' && autoSaveDelay < THRESHOLD
DisabledForDelay(delay) ==
    delay # Undefined /\ delay < DISABLE_BACKUP_AUTO_SAVE_THRESHOLD

\* the early return without the exemption of untitled working copies
IsSuppressedNoExemption(r) == backupsDisabledForAutoSaveables

\* the early return of onDidChangeWorkingCopyContent for auto-saveables
IsSuppressed(r) ==
    backupsDisabledForAutoSaveables /\ ~HasUntitledCapability(r)

\* the dirty check placed after the early return for auto-saveables
IsCleanAndNotSuppressed(r) == ~dirty[r] /\ ~IsSuppressed(r)

\* the first check of onDidChangeWorkingCopyContent: !workingCopy.isDirty()
IsClean(r) == ~dirty[r]

\* the created handler made to honour the flag of the auto-saveables
IsUntitledDirtyAndEnabled(r) == dirty[r] /\ ~backupsDisabledForAutoSaveables

\* untitledTextEditorService.isDirty(resource)
IsUntitledDirty(r) == dirty[r]

\* the files branch without its "if (model)"
HasModelAlways(r) == TRUE

\* textFileService.models.get(resource) is defined
HasModel(r) == r \in models

\* the entry is dropped and its timeout left running
DisposePendingForgotten(tm, pb, r) == tm

\* dispose(this.pendingBackups.get(resource)): clearTimeout of the handle
DisposePending(tm, pb, r) ==
    IF pb[r] = None THEN tm ELSE [tm EXCEPT ![pb[r]] = NoTimer]

\* the timeout is cleared and its entry kept
DeletePendingForgotten(pb, r) == pb

\* this.pendingBackups.delete(resource)
DeletePending(pb, r) == [pb EXCEPT ![r] = None]

\* the callback keeps its own entry
ClearDisposableForgotten(pb, r) == pb

\* the callback's this.pendingBackups.delete(model.resource)
ClearDisposable(pb, r) == [pb EXCEPT ![r] = None]

\* setTimeout returns a handle that no live timeout has
NewHandle(tm) ==
    CHOOSE id \in TimerIds :
        /\ ~IsLive(tm, id)
        /\ \A j \in TimerIds : j < id => IsLive(tm, j)

\* a timeout that never becomes due
IsDueNever(t) == t.elapsed > BACKUP_FROM_CONTENT_CHANGE_DELAY

\* the timeout is due: BACKUP_FROM_CONTENT_CHANGE_DELAY has passed
IsDue(t) == t.elapsed >= BACKUP_FROM_CONTENT_CHANGE_DELAY

\* the callback without its dirty check
BackupAlways(r) == <<BackupCall(r)>>

\* the callback's "if (model.isDirty()) model.backup()"
BackupIfDirty(r) == IF dirty[r] THEN <<BackupCall(r)>> ELSE <<>>

\* the store is told only when an entry was pending
ForwardDiscardIfPending(pb, r) ==
    IF pb[r] # None THEN <<DiscardCall(r)>> ELSE <<>>

\* backupFileService.discardResourceBackup(resource)
ForwardDiscard(pb, r) == <<DiscardCall(r)>>

\* backupModel(model): clear the running backup, schedule a new one if dirty
backupModel(r) ==
    LET cleared == DisposePending(timers, pendingBackups, r)
        deleted == DeletePending(pendingBackups, r)
    IN  IF dirty[r]
        THEN /\ LiveTimers(cleared) # TimerIds
             /\ timers' = [cleared EXCEPT ![NewHandle(cleared)] = Timer(r)]
             /\ pendingBackups' = [deleted EXCEPT ![r] = NewHandle(cleared)]
        ELSE /\ timers' = cleared
             /\ pendingBackups' = deleted

\* discardBackup(resource)
discardBackup(r) ==
    /\ timers' = DisposePending(timers, pendingBackups, r)
    /\ pendingBackups' = DeletePending(pendingBackups, r)
    /\ calls' = ForwardDiscard(pendingBackups, r)

----------------------------------------------------------------------------
(* Initial state: the tracker as constructed, the collaborators in any state *)

Init ==
    /\ backupsDisabledForAutoSaveables = FALSE
    /\ pendingBackups = [r \in Resources |-> None]
    /\ timers = [id \in TimerIds |-> NoTimer]
    /\ resolving = [r \in UntitledResources |-> 0]
    /\ disposed = FALSE
    /\ dirty \in [Resources -> BOOLEAN]
    /\ models \in SUBSET FileResources
    /\ calls = <<>>
    /\ event = Turn("constructor", NoResource, Undefined, None)
    /\ sinceChange = [r \in Resources |-> BACKUP_FROM_CONTENT_CHANGE_DELAY]
    /\ untitledPhase = [r \in UntitledResources |-> "idle"]

----------------------------------------------------------------------------
(* Handlers registered by registerListeners; none runs after dispose() *)

\* a configuration handler that also cancels what suppression now covers
onAutoSaveConfigurationChangeCancelling(delay) ==
    /\ ~disposed
    /\ backupsDisabledForAutoSaveables' = DisabledForDelay(delay)
    /\ timers' = [id \in TimerIds |->
                    IF DisabledForDelay(delay) /\ timers[id].res \in FileResources
                    THEN NoTimer ELSE timers[id]]
    /\ pendingBackups' = [r \in Resources |->
                    IF DisabledForDelay(delay) /\ r \in FileResources
                    THEN None ELSE pendingBackups[r]]
    /\ calls' = <<>>
    /\ event' = Turn("onAutoSaveConfigurationChange", NoResource, delay, None)
    /\ UNCHANGED <<resolving, disposed, dirty, models, sinceChange,
                   untitledPhase>>

onAutoSaveConfigurationChange(delay) ==
    /\ ~disposed
    /\ backupsDisabledForAutoSaveables' = DisabledForDelay(delay)
    /\ calls' = <<>>
    /\ UNCHANGED untitledPhase
    /\ event' = Turn("onAutoSaveConfigurationChange", NoResource, delay, None)
    /\ UNCHANGED <<pendingBackups, timers, resolving, disposed, dirty, models,
                   sinceChange>>

onDidChangeWorkingCopyContent(r) ==
    /\ ~disposed
    /\ event' = Turn("onDidChangeWorkingCopyContent", r, Undefined,
                     pendingBackups[r])
    /\ IF IsClean(r)
       THEN /\ discardBackup(r)
            /\ UNCHANGED <<resolving, sinceChange, untitledPhase>>
       ELSE IF IsSuppressed(r)
       THEN /\ calls' = <<>>
            /\ UNCHANGED <<pendingBackups, timers, resolving, sinceChange,
                           untitledPhase>>
       ELSE /\ calls' = <<>>
            /\ sinceChange' = [sinceChange EXCEPT ![r] = 0]
            /\ IF HasUntitledScheme(r)
               THEN /\ resolving[r] < MaxResolving
                    /\ resolving' = [resolving EXCEPT ![r] = @ + 1]
                    /\ untitledPhase' = [untitledPhase EXCEPT ![r] = "asked"]
                    /\ UNCHANGED <<pendingBackups, timers>>
               ELSE /\ IF HasModel(r)
                       THEN backupModel(r)
                       ELSE UNCHANGED <<pendingBackups, timers>>
                    /\ UNCHANGED <<resolving, untitledPhase>>
    /\ UNCHANGED <<backupsDisabledForAutoSaveables, disposed, dirty, models>>

\* onModelSaved, onModelReverted: the model stays in the registry
onModelSaved(r) ==
    /\ ~disposed
    /\ r \in models
    /\ discardBackup(r)
    /\ UNCHANGED untitledPhase
    /\ event' = Turn("onModelSaved", r, Undefined, pendingBackups[r])
    /\ UNCHANGED <<backupsDisabledForAutoSaveables, resolving, disposed, dirty,
                   models, sinceChange>>

onModelReverted(r) ==
    /\ ~disposed
    /\ r \in models
    /\ discardBackup(r)
    /\ UNCHANGED untitledPhase
    /\ event' = Turn("onModelReverted", r, Undefined, pendingBackups[r])
    /\ UNCHANGED <<backupsDisabledForAutoSaveables, resolving, disposed, dirty,
                   models, sinceChange>>

\* onModelDisposed: the model has left the registry
onModelDisposed(r) ==
    /\ ~disposed
    /\ r \in models
    /\ models' = models \ {r}
    /\ discardBackup(r)
    /\ UNCHANGED untitledPhase
    /\ event' = Turn("onModelDisposed", r, Undefined, pendingBackups[r])
    /\ UNCHANGED <<backupsDisabledForAutoSaveables, resolving, disposed, dirty,
                   sinceChange>>

\* untitledTextEditorService.onDidDisposeModel
onDidDisposeModel(r) ==
    /\ ~disposed
    /\ discardBackup(r)
    /\ untitledPhase' = [untitledPhase EXCEPT
                            ![r] = IF @ = "asked" THEN "disposed" ELSE @]
    /\ event' = Turn("onDidDisposeModel", r, Undefined, pendingBackups[r])
    /\ UNCHANGED <<backupsDisabledForAutoSaveables, resolving, disposed, dirty,
                   models, sinceChange>>

onDidCreateUntitled(r) ==
    /\ ~disposed
    /\ event' = Turn("onDidCreateUntitled", r, Undefined, pendingBackups[r])
    /\ calls' = <<>>
    /\ IF IsUntitledDirty(r)
       THEN /\ resolving[r] < MaxResolving
            /\ resolving' = [resolving EXCEPT ![r] = @ + 1]
            /\ untitledPhase' = [untitledPhase EXCEPT ![r] = "asked"]
       ELSE UNCHANGED <<resolving, untitledPhase>>
    /\ UNCHANGED <<backupsDisabledForAutoSaveables, pendingBackups, timers,
                   disposed, dirty, models, sinceChange>>

----------------------------------------------------------------------------
(* Turns of the event loop that are not listeners *)

\* .resolve().then(model => this.backupModel(model))
Resolved(r) ==
    /\ resolving[r] > 0
    /\ resolving' = [resolving EXCEPT ![r] = @ - 1]
    /\ backupModel(r)
    /\ calls' = <<>>
    /\ UNCHANGED untitledPhase
    /\ event' = Turn("resolved", r, Undefined, pendingBackups[r])
    /\ UNCHANGED <<backupsDisabledForAutoSaveables, disposed, dirty, models,
                   sinceChange>>

\* the setTimeout callback of backupModel
TimerFired(id) ==
    /\ IsLive(timers, id)
    /\ IsDue(timers[id])
    /\ timers' = [timers EXCEPT ![id] = NoTimer]
    /\ pendingBackups' = ClearDisposable(pendingBackups, timers[id].res)
    /\ calls' = BackupIfDirty(timers[id].res)
    /\ UNCHANGED untitledPhase
    /\ event' = Turn("timeout", timers[id].res, Undefined, id)
    /\ UNCHANGED <<backupsDisabledForAutoSaveables, resolving, disposed, dirty,
                   models, sinceChange>>

\* Disposable.dispose(): what registerListeners gave to _register is disposed
Dispose ==
    /\ ~disposed
    /\ disposed' = TRUE
    /\ calls' = <<>>
    /\ UNCHANGED untitledPhase
    /\ event' = Turn("dispose", NoResource, Undefined, None)
    /\ UNCHANGED <<backupsDisabledForAutoSaveables, pendingBackups, timers,
                   resolving, dirty, models, sinceChange>>

----------------------------------------------------------------------------
(* The environment *)

Advance(n) == Min(n + TickStep, BACKUP_FROM_CONTENT_CHANGE_DELAY)

\* time passes; a timeout may run later than its delay, never earlier
Tick ==
    /\ \/ \E id \in LiveTimers(timers) : ~IsDue(timers[id])
       \/ \E r \in Resources : sinceChange[r] < BACKUP_FROM_CONTENT_CHANGE_DELAY
    /\ timers' = [id \in TimerIds |->
                    IF IsLive(timers, id)
                    THEN [timers[id] EXCEPT !.elapsed = Advance(@)]
                    ELSE NoTimer]
    /\ sinceChange' = [r \in Resources |-> Advance(sinceChange[r])]
    /\ calls' = <<>>
    /\ UNCHANGED untitledPhase
    /\ event' = Turn("tick", NoResource, Undefined, None)
    /\ UNCHANGED <<backupsDisabledForAutoSaveables, pendingBackups, resolving,
                   disposed, dirty, models>>

\* the document gets or loses unsaved changes
DirtyChanged(r) ==
    /\ dirty' = [dirty EXCEPT ![r] = ~@]
    /\ calls' = <<>>
    /\ UNCHANGED untitledPhase
    /\ event' = Turn("dirtyChanged", r, Undefined, pendingBackups[r])
    /\ UNCHANGED <<backupsDisabledForAutoSaveables, pendingBackups, timers,
                   resolving, disposed, models, sinceChange>>

\* a text file model is loaded into textFileService.models
ModelLoaded(r) ==
    /\ r \notin models
    /\ models' = models \cup {r}
    /\ calls' = <<>>
    /\ UNCHANGED untitledPhase
    /\ event' = Turn("modelLoaded", r, Undefined, pendingBackups[r])
    /\ UNCHANGED <<backupsDisabledForAutoSaveables, pendingBackups, timers,
                   resolving, disposed, dirty, sinceChange>>

----------------------------------------------------------------------------

Next ==
    \/ \E d \in AutoSaveDelays : onAutoSaveConfigurationChange(d)
    \/ \E r \in Resources : onDidChangeWorkingCopyContent(r)
    \/ \E r \in FileResources : onModelSaved(r)
    \/ \E r \in FileResources : onModelReverted(r)
    \/ \E r \in FileResources : onModelDisposed(r)
    \/ \E r \in UntitledResources : onDidDisposeModel(r)
    \/ \E r \in UntitledResources : onDidCreateUntitled(r)
    \/ \E r \in UntitledResources : Resolved(r)
    \/ \E id \in TimerIds : TimerFired(id)
    \/ Dispose
    \/ Tick
    \/ \E r \in Resources : DirtyChanged(r)
    \/ \E r \in FileResources : ModelLoaded(r)

Spec == Init /\ [][Next]_vars

\* time passes and a due timeout's callback is eventually run by the event loop
LiveSpec ==
    /\ Spec
    /\ WF_vars(Tick)
    /\ \A id \in TimerIds : WF_vars(TimerFired(id))

----------------------------------------------------------------------------
(* Properties *)

TimersOf(r) == {id \in LiveTimers(timers) : timers[id].res = r}

BackupCalls(r) == SelectSeq(calls, LAMBDA c : c = BackupCall(r))

DiscardCalls(r) == SelectSeq(calls, LAMBDA c : c = DiscardCall(r))

ModelEvents ==
    {"onModelSaved", "onModelReverted", "onModelDisposed", "onDidDisposeModel"}

IsContentChange(e) == e.kind = "onDidChangeWorkingCopyContent"

\* C1: after every turn of the event loop each resource has at most one
\* pending backup, that is at most one live timeout.
C1_AtMostOnePending ==
    \A r \in Resources : Cardinality(TimersOf(r)) <= 1

\* a change arrived for a resource with a pending backup, and a backup is pending
C1_Witness ==
    /\ IsContentChange(event)
    /\ event.prior # None
    /\ pendingBackups[event.res] # None
    /\ Cardinality(TimersOf(event.res)) = 1

\* C2: a qualifying (dirty, not suppressed) content change for R restarts
\* the debounce: no timeout of R runs, and so no backup() of R is called,
\* before the full delay has passed since the last qualifying change of R,
\* and the timeout that then runs calls backup() at most once.
C2_DebounceFromLastChange ==
    \A r \in Resources :
        (event.kind = "timeout" /\ event.res = r)
            => /\ sinceChange[r] >= BACKUP_FROM_CONTENT_CHANGE_DELAY
               /\ Len(BackupCalls(r)) <= 1

\* C3: backup() is called only by a timeout callback that finds its model
\* dirty, at most once by a callback; a callback that finds it not dirty makes no call.
C3_BackupOnlyIfDirtyAtExpiry ==
    /\ \A r \in Resources :
           Len(BackupCalls(r)) > 0
               => event.kind = "timeout" /\ event.res = r /\ dirty[r]
                  /\ Len(BackupCalls(r)) = 1
    /\ (event.kind = "timeout" /\ ~dirty[event.res]) => calls = <<>>

\* a timeout ran for a model that had stopped being dirty, and made no call
C3_Witness ==
    /\ event.kind = "timeout"
    /\ ~dirty[event.res]
    /\ calls = <<>>

\* C4: every run of discardBackup for R (saved, reverted, disposed, untitled
\* disposed, content change of a copy that is not dirty) calls the store's
\* discard for R exactly once and nothing else, pending entry or not.
C4_DiscardAlwaysForwarded ==
    (event.kind \in ModelEvents \/ (IsContentChange(event) /\ ~dirty[event.res]))
        => calls = <<DiscardCall(event.res)>>

\* a discard ran for a resource that had no pending entry
C4_Witness ==
    /\ event.kind \in ModelEvents
    /\ event.prior = None
    /\ Len(DiscardCalls(event.res)) = 1

\* C5: once dispose() has run there is no live timeout, the map is empty
\* and no backup() call is made.
C5_TeardownLeavesNoTimers ==
    disposed =>
        /\ LiveTimers(timers) = {}
        /\ \A r \in Resources : pendingBackups[r] = None
        /\ \A r \in Resources : Len(BackupCalls(r)) = 0

\* C6: a saved, reverted or disposed event for a resource with a pending
\* entry leaves no entry and no live timeout for it (so the cancelled timeout
\* cannot call backup()) and has called the store's discard for it.
C6_ModelEventCancels ==
    (event.kind \in ModelEvents /\ event.prior # None)
        => /\ pendingBackups[event.res] = None
           /\ ~IsLive(timers, event.prior)
           /\ TimersOf(event.res) = {}
           /\ Len(BackupCalls(event.res)) = 0
           /\ Len(DiscardCalls(event.res)) = 1

\* a model event was handled for a resource whose backup was pending
C6_Witness ==
    /\ event.kind \in ModelEvents
    /\ event.prior # None
    /\ pendingBackups[event.res] = None

C7_Step ==
    (IsContentChange(event') /\ dirty[event'.res]) =>
        IF HasUntitledCapability(event'.res)
        THEN /\ resolving'[event'.res] = resolving[event'.res] + 1
             /\ UNCHANGED <<pendingBackups, timers>>
             /\ calls' = <<>>
        ELSE backupsDisabledForAutoSaveables
                 => /\ UNCHANGED <<pendingBackups, timers, resolving>>
                    /\ calls' = <<>>

C7_Resolved ==
    (event.kind = "resolved" /\ dirty[event.res])
        => /\ pendingBackups[event.res] # None
           /\ timers[pendingBackups[event.res]] = Timer(event.res)

\* C7: while the flag is set, a content change of a dirty copy that is not
\* untitled leaves the map and the timeouts as they are; a content change of
\* a dirty untitled copy starts the model's resolution whatever the flag is,
\* and the resolution, finding the model dirty, schedules the backup.
C7_SuppressionExemptsUntitled == []C7_Resolved /\ [][C7_Step]_vars

\* under suppression a dirty file changed and its pending entry was kept
C7_Witness ==
    /\ backupsDisabledForAutoSaveables
    /\ IsContentChange(event)
    /\ ~HasUntitledCapability(event.res)
    /\ dirty[event.res]
    /\ event.prior # None
    /\ pendingBackups[event.res] = event.prior
    /\ IsLive(timers, event.prior)

C8_Step ==
    IF event'.kind = "onAutoSaveConfigurationChange"
    THEN backupsDisabledForAutoSaveables'
             = (event'.delay \in 0 .. (DISABLE_BACKUP_AUTO_SAVE_THRESHOLD - 1))
    ELSE UNCHANGED backupsDisabledForAutoSaveables

\* C8: the flag is false at construction, changes only in the configuration
\* handler, and after that handler is true exactly when autoSaveDelay is a
\* number below 1500.
C8_FlagFollowsConfiguration ==
    (~backupsDisabledForAutoSaveables) /\ [][C8_Step]_vars

\* a delay of 1499 was configured over a flag that is now set
C8_Witness ==
    /\ event.kind = "onAutoSaveConfigurationChange"
    /\ event.delay = DISABLE_BACKUP_AUTO_SAVE_THRESHOLD - 1
    /\ backupsDisabledForAutoSaveables

C9_Fired(r) ==
    /\ event.kind = "timeout"
    /\ event.res = r
    /\ calls = <<BackupCall(r)>>
    /\ pendingBackups[r] = None
    /\ TimersOf(r) = {}

C9_Interfered(r) ==
    /\ event.res = r
    /\ event.kind \in ModelEvents \cup
           {"onDidChangeWorkingCopyContent", "onDidCreateUntitled", "dirtyChanged"}

\* C9: a pending backup of a dirty document leads to its timeout running
\* backup() once and leaving no entry, unless an event for the document or a
\* change of its dirty state comes first.
C9_PendingBackupRuns ==
    \A r \in Resources :
        (pendingBackups[r] # None /\ dirty[r])
            ~> (C9_Fired(r) \/ C9_Interfered(r))

\* a timeout ran backup() once and left no entry
C9_Witness ==
    \E r \in Resources : C9_Fired(r) /\ dirty[r]

\* C10: map entries and live timeouts correspond one to one, and a timeout
\* that has run is gone together with the entry of its resource, backup() or not.
C10_MapMatchesTimers ==
    /\ \A r \in Resources :
           pendingBackups[r] # None
               => IsLive(timers, pendingBackups[r]) /\ timers[pendingBackups[r]].res = r
    /\ \A id \in LiveTimers(timers) : pendingBackups[timers[id].res] = id
    /\ event.kind = "timeout"
           => pendingBackups[event.res] = None /\ ~IsLive(timers, event.prior)

\* a timeout ran without calling backup() and its entry is gone
C10_Witness ==
    /\ event.kind = "timeout"
    /\ calls = <<>>
    /\ pendingBackups[event.res] = None
    /\ \E r \in Resources : pendingBackups[r] # None

\* C11: once a dirty content change or a created event of an untitled R,
\* then the disposal of R's model, and every resolution started for R have
\* run, the map holds no entry for R and no backup() of R is called, as
\* long as no further qualifying event for R arrives.
C11_DisposeWinsOverResolution ==
    \A r \in UntitledResources :
        (untitledPhase[r] = "disposed" /\ resolving[r] = 0)
            => /\ pendingBackups[r] = None
               /\ TimersOf(r) = {}
               /\ Len(BackupCalls(r)) = 0

C12_Step ==
    \A r \in Resources :
        (IsContentChange(event') /\ event'.res = r /\ ~dirty[r])
            => /\ pendingBackups' = [pendingBackups EXCEPT ![r] = None]
               /\ timers' = [id \in TimerIds |->
                                IF id = pendingBackups[r] THEN NoTimer ELSE timers[id]]
               /\ TimersOf(r)' = {}
               /\ resolving' = resolving
               /\ calls' = <<DiscardCall(r)>>

\* C12: a content change of a copy that is not dirty cancels and removes
\* the pending entry, calls the store's discard and schedules nothing,
\* whatever the flag is and untitled or not.
C12_CleanChangeDiscards == [][C12_Step]_vars

\* under suppression a file that is not dirty changed and its entry was cancelled
C12_Witness ==
    /\ IsContentChange(event)
    /\ ~dirty[event.res]
    /\ ~HasUntitledCapability(event.res)
    /\ backupsDisabledForAutoSaveables
    /\ event.prior # None
    /\ pendingBackups[event.res] = None
    /\ calls = <<DiscardCall(event.res)>>

C13_Step ==
    event'.kind = "onAutoSaveConfigurationChange"
        => /\ UNCHANGED <<pendingBackups, timers, resolving>>
           /\ calls' = <<>>

C13_StillRuns ==
    (event.kind = "timeout" /\ dirty[event.res])
        => calls = <<BackupCall(event.res)>>

\* C13: the configuration handler leaves the map, the timeouts and the
\* started resolutions as they are and calls no collaborator; a timeout that
\* then runs calls backup() if its model is dirty, whatever the flag is.
C13_ConfigurationOnlySetsFlag == []C13_StillRuns /\ [][C13_Step]_vars

\* suppression was switched on over a pending backup of a file
C13_Witness ==
    /\ event.kind = "onAutoSaveConfigurationChange"
    /\ backupsDisabledForAutoSaveables
    /\ \E r \in FileResources :
           /\ pendingBackups[r] # None
           /\ IsLive(timers, pendingBackups[r])
           /\ dirty[r]

C14_Step ==
    \A r \in UntitledResources :
        (event'.kind = "onDidCreateUntitled" /\ event'.res = r)
            => /\ UNCHANGED <<pendingBackups, timers>>
               /\ calls' = <<>>
               /\ resolving'[r] = IF dirty[r] THEN resolving[r] + 1 ELSE resolving[r]

C14_Scheduled ==
    (event.kind = "resolved" /\ dirty[event.res])
        => /\ Cardinality(TimersOf(event.res)) = 1
           /\ \A id \in TimersOf(event.res) :
                  timers[id].elapsed = 0 /\ pendingBackups[event.res] = id

\* C14: the created handler of an untitled R that is dirty starts the
\* resolution of R's model whatever the flag is, and the resolution, finding
\* the model dirty, runs backupModel and leaves one fresh timeout for R; for
\* an R that is not dirty the handler changes nothing and calls nothing.
C14_CreatedDirtySchedules == []C14_Scheduled /\ [][C14_Step]_vars

\* under suppression a dirty untitled document was created and its resolution started
C14_Witness ==
    /\ event.kind = "onDidCreateUntitled"
    /\ dirty[event.res]
    /\ backupsDisabledForAutoSaveables
    /\ resolving[event.res] > 0

C15_Step ==
    \A r \in Resources :
        (/\ IsContentChange(event') /\ event'.res = r
         /\ dirty[r] /\ ~backupsDisabledForAutoSaveables
         /\ ~HasUntitledScheme(r) /\ r \notin models)
            => /\ UNCHANGED <<pendingBackups, timers, resolving,
                              backupsDisabledForAutoSaveables>>
               /\ calls' = <<>>

\* C15: a dirty, unsuppressed content change of a resource that is not
\* untitled and has no model in the registry changes neither the map, the
\* timeouts nor the flag and calls no collaborator.
C15_UnresolvableIsNoOp == [][C15_Step]_vars

\* a dirty file without a model changed while backups were enabled
C15_Witness ==
    /\ IsContentChange(event)
    /\ ~HasUntitledScheme(event.res)
    /\ dirty[event.res]
    /\ ~backupsDisabledForAutoSaveables
    /\ event.res \notin models
    /\ pendingBackups[event.res] = None
    /\ calls = <<>>

IsDiscardTurn(e, r) ==
    /\ e.res = r
    /\ e.kind \in ModelEvents \/ (IsContentChange(e) /\ ~dirty[r])

C16_Step ==
    \A r \in Resources :
        (IsDiscardTurn(event', r) /\ (TimersOf(r) = {} \/ IsDiscardTurn(event, r)))
            => /\ UNCHANGED <<pendingBackups, timers>>
               /\ pendingBackups'[r] = None
               /\ calls' = <<DiscardCall(r)>>

\* C16: a discard for R that follows a discard for R, or that finds R's
\* timeout already run or cancelled, leaves the map and the timeouts as
\* they are and calls only the store's discard, once.
C16_DiscardIsIdempotent == [][C16_Step]_vars

\* a discard ran for a resource without an entry while another timeout was live
C16_Witness ==
    /\ \E r \in Resources : IsDiscardTurn(event, r)
    /\ event.prior = None
    /\ LiveTimers(timers) # {}
    /\ calls = <<DiscardCall(event.res)>>

====
